---- MODULE Spec2Model ----
(***************************************************************************)
(* Model of class llm in "Context Window Management Challenge/llm.py":     *)
(* the two message histories, the token estimate, the summarization of the *)
(* active history and the send_message turn, with the two calls to the     *)
(* chat completions service as steps that may return or raise.             *)
(*                                                                         *)
(* A message is a record [role, content]; a content is a sequence of       *)
(* one-character strings, so that str.split() is modelled by what it does. *)
(***************************************************************************)
EXTENDS Integers, Sequences, FiniteSets, TLC

VARIABLES
    full_message_history,        \* self.full_message_history
    summarized_message_history,  \* self.summarized_message_history
    token_threshold_to_trigger_summarization, \* the instance attribute
    pc,              \* where the running call stands ("idle": no call runs)
    caller,          \* who called manage_context_window
    prompt,          \* send_message's argument prompt
    role,            \* send_message's argument role
    response,        \* summarize_chat_history's local: the one-shot reply
    total_tokens,    \* response.usage.total_tokens of the last service reply
    context_window,  \* the list manage_context_window returned
    events,          \* what the running (or last) call has done, in order
    result,          \* how the last call ended
    user_prompt,     \* summarize_chat_history's local: the one-shot input
    ai_message,      \* send_message's local: the text it returns
    estimate_messages, \* calculate_total_tokens' argument, called on its own
    estimate_tokens    \* what that call of calculate_total_tokens returned

vars == <<full_message_history, summarized_message_history,
          token_threshold_to_trigger_summarization, pc, caller, prompt, role,
          response, total_tokens, context_window, events, result,
          user_prompt, ai_message, estimate_messages, estimate_tokens>>

\* The argument and the value of calculate_total_tokens called on its own.
estimator == <<estimate_messages, estimate_tokens>>

histories == <<full_message_history, summarized_message_history>>

(***************************************************************************)
(* Bounds of the model.                                                    *)
(***************************************************************************)
\* send_message is not called once the verbatim history could outgrow this.
MaxHistory == 4
\* The threshold attribute is 1024 words after construction; the model
\* scales it to 1..MaxThreshold words so that the texts stay short.
MaxThreshold == 3

(***************************************************************************)
(* Program constants.                                                      *)
(***************************************************************************)
\* llm.py:172 and llm.py:222: total_tokens > 4096 raises.
HardCeiling == 4096

ValidRoles == {"user", "assistant", "system"}
Roles == ValidRoles \cup {"bogus"}

\* The texts the caller sends: one word, two words between irregular
\* white space.
Prompts == { <<"a">>, <<" ", "a", " ", " ", "b">> }
\* The texts the multi-turn call replies.
Replies == { <<"r">>, <<"r", " ", "r">> }
\* The texts the one-shot call replies.
Summaries == { <<"s">>, <<"s", " ", "s">> }
\* The usage totals the service reports.
UsageTotals == { HardCeiling - 1, HardCeiling, HardCeiling + 1 }
Thresholds == 1..MaxThreshold

Last(s) == s[Len(s)]
IsPrefix(s, t) == Len(s) <= Len(t) /\ SubSeq(t, 1, Len(s)) = s

(***************************************************************************)
(* calculate_total_tokens: sum of len(content.split()) over the messages.  *)
(***************************************************************************)
IsSpace(c) == c \in {" ", "\t", "\n"}

\* A plausible slip: split(' '), which counts one piece more than there
\* are spaces.
WordCount_SplitOnSpace(content) ==
    Cardinality({ i \in 1..Len(content) : content[i] = " " }) + 1
\* len(content.split()): the number of maximal runs of non-space characters.
WordCount(content) ==
    Cardinality({ i \in 1..Len(content) :
                    /\ ~IsSpace(content[i])
                    /\ (i = 1 \/ IsSpace(content[i - 1])) })

RECURSIVE calculate_total_tokens(_)
calculate_total_tokens(messages) ==
    IF messages = <<>> THEN 0
    ELSE WordCount(messages[1].content)
         + calculate_total_tokens(Tail(messages))

(***************************************************************************)
(* add_message_to_history: append to both lists.                           *)
(***************************************************************************)
\* A plausible slip: the message is put in front of the list.
AppendedFull_Prepend(full, message) == <<message>> \o full
AppendedFull(full, message) == Append(full, message)
\* A plausible slip: the message is put in front of the active history.
AppendedSummarized_Prepend(summarized, message) == <<message>> \o summarized
AppendedSummarized(summarized, message) == Append(summarized, message)

add_message_to_history(message) ==
    /\ full_message_history' = AppendedFull(full_message_history, message)
    /\ summarized_message_history' =
           AppendedSummarized(summarized_message_history, message)

(***************************************************************************)
(* manage_context_window, line 70: the budget test.                        *)
(***************************************************************************)
\* Plausible slips: > for >=, and a test that is one word too eager.
ThresholdReached_Strict(messages, threshold) ==
    calculate_total_tokens(messages) > threshold
ThresholdReached_Eager(messages, threshold) ==
    calculate_total_tokens(messages) + 1 >= threshold
ThresholdReached(messages, threshold) ==
    calculate_total_tokens(messages) >= threshold

(***************************************************************************)
(* summarize_chat_history, line 57, and manage_context_window, lines 75-76:*)
(* the list the summarizer returns, and the new active history.            *)
(***************************************************************************)
\* A plausible slip: >= for >.
ExceedsCeiling_AtCeiling(total) == total >= HardCeiling
\* gpt4_conversation, line 172, and gpt4_one_shot, line 222.
ExceedsCeiling(total) == total > HardCeiling

SummaryList(text) == << [role |-> "system", content |-> text] >>

\* Plausible slips: line 75 forgotten, and the first message kept instead of
\* the last.
SummarizedHistory_NoLast(history, text) == SummaryList(text)
SummarizedHistory_KeepFirst(history, text) ==
    Append(SummaryList(text), history[1])
\* A plausible slip: the whole old history is kept behind the summary.
SummarizedHistory_KeepAll(history, text) == SummaryList(text) \o history
SummarizedHistory(history, text) == Append(SummaryList(text), Last(history))

(***************************************************************************)
(* summarize_chat_history, line 46: the one-shot user prompt,              *)
(* ' '.join(f"{role}: {content}") over all messages but the last.          *)
(***************************************************************************)
\* The characters of a role name.
RoleChars(r) ==
    CASE r = "user" -> <<"u", "s", "e", "r">>
      [] r = "assistant" -> <<"a", "s", "s", "i", "s", "t", "a", "n", "t">>
      [] r = "system" -> <<"s", "y", "s", "t", "e", "m">>

\* f"{message['role']}: {message['content']}"
Rendered(message) ==
    RoleChars(message.role) \o <<":", " ">> \o message.content

\* ' '.join(texts)
RECURSIVE JoinedBySpace(_)
JoinedBySpace(texts) ==
    IF texts = <<>> THEN <<>>
    ELSE IF Len(texts) = 1 THEN texts[1]
    ELSE texts[1] \o <<" ">> \o JoinedBySpace(Tail(texts))

\* Plausible slips: the last message is not cut off, and the first message
\* is cut off as well.
AllButLast_All(history) == history
AllButLast_SkipFirst(history) == SubSeq(history, 2, Len(history) - 1)
\* self.summarized_message_history[:-1]
AllButLast(history) == SubSeq(history, 1, Len(history) - 1)

UserPrompt(history) ==
    JoinedBySpace([i \in 1..Len(AllButLast(history)) |->
                      Rendered(AllButLast(history)[i])])

\* A plausible slip: the reply is stored under the turn's own role.
ReplyMessage_AsUser(text) == [role |-> "user", content |-> text]
\* send_message, line 129: the reply as a message.
ReplyMessage(text) == [role |-> "assistant", content |-> text]

\* Where manage_context_window returns to: send_message goes on to line 125.
AfterWindow(who) == IF who = "send_message" THEN "conversation" ELSE "done"
WindowResult(who) == IF who = "send_message" THEN "none" ELSE "returned"
\* A plausible slip: a while for the if of line 70, which tests the
\* compressed history again.
AfterCompression_Again(who) == "manage"
\* Lines 76-80: after the one compression manage_context_window returns.
AfterCompression(who) == AfterWindow(who)
\* Line 125: the multi-turn request is sent as soon as the window is built.
WindowEvents(who) == IF who = "send_message" THEN <<"multi">> ELSE <<>>

\* A plausible slip: the message is appended before the role is validated.
send_message_AppendFirst(p, r) ==
    /\ pc = "idle"
    /\ prompt' = p
    /\ role' = r
    /\ caller' = "send_message"
    /\ Len(full_message_history) + 2 <= MaxHistory
    /\ add_message_to_history([role |-> r, content |-> p])
    /\ IF r \in ValidRoles
       THEN /\ pc' = "manage"
            /\ events' = <<"append">>
            /\ result' = "none"
       ELSE /\ result' = "InvalidRole"
            /\ pc' = "done"
            /\ events' = <<>>
    /\ UNCHANGED <<token_threshold_to_trigger_summarization, response,
                   total_tokens, context_window>>
    /\ UNCHANGED <<user_prompt, ai_message>>
    /\ UNCHANGED estimator

(***************************************************************************)
(* send_message, lines 110-119: validate the role, append, build the       *)
(* window.                                                                 *)
(***************************************************************************)
send_message(p, r) ==
    /\ pc = "idle"
    /\ prompt' = p
    /\ role' = r
    /\ caller' = "send_message"
    /\ IF r \in ValidRoles
       THEN /\ Len(full_message_history) + 2 <= MaxHistory
            /\ add_message_to_history([role |-> r, content |-> p])
            /\ pc' = "manage"
            /\ events' = <<"append">>
            /\ result' = "none"
       ELSE \* line 117: raise ValueError
            /\ result' = "InvalidRole"
            /\ pc' = "done"
            /\ events' = <<>>
            /\ UNCHANGED histories
    /\ UNCHANGED <<token_threshold_to_trigger_summarization, response,
                   total_tokens, context_window>>
    /\ UNCHANGED <<user_prompt, ai_message>>
    /\ UNCHANGED estimator

(***************************************************************************)
(* manage_context_window called by the host itself.                        *)
(***************************************************************************)
call_manage_context_window ==
    /\ pc = "idle"
    /\ pc' = "manage"
    /\ caller' = "host"
    /\ events' = <<>>
    /\ result' = "none"
    /\ UNCHANGED <<histories, token_threshold_to_trigger_summarization,
                   prompt, role, response, total_tokens, context_window>>
    /\ UNCHANGED <<user_prompt, ai_message>>
    /\ UNCHANGED estimator

(***************************************************************************)
(* manage_context_window, lines 70 and 80: below the threshold the active  *)
(* history is returned as it is.                                           *)
(***************************************************************************)
manage_below_threshold ==
    /\ pc = "manage"
    /\ ~ThresholdReached(summarized_message_history,
                         token_threshold_to_trigger_summarization)
    /\ context_window' = summarized_message_history
    /\ pc' = AfterWindow(caller)
    /\ events' = events \o <<"check">> \o WindowEvents(caller)
    /\ result' = WindowResult(caller)
    /\ UNCHANGED <<histories, token_threshold_to_trigger_summarization,
                   caller, prompt, role, response, total_tokens>>
    /\ UNCHANGED <<user_prompt, ai_message>>
    /\ UNCHANGED estimator

(***************************************************************************)
(* manage_context_window, lines 70-73, summarize_chat_history, lines 45-56 *)
(* and gpt4_one_shot, line 209: the one-shot request is sent.              *)
(***************************************************************************)
manage_summarize ==
    /\ pc = "manage"
    /\ ThresholdReached(summarized_message_history,
                        token_threshold_to_trigger_summarization)
    /\ pc' = "one_shot"
    /\ events' = events \o <<"check", "one_shot">>
    /\ UNCHANGED <<histories, token_threshold_to_trigger_summarization,
                   caller, prompt, role, response, total_tokens,
                   context_window, result>>
    /\ user_prompt' = UserPrompt(summarized_message_history)
    /\ UNCHANGED ai_message
    /\ UNCHANGED estimator

(***************************************************************************)
(* gpt4_one_shot, lines 222-225, summarize_chat_history, line 57, and      *)
(* manage_context_window, lines 75-80: the one-shot reply arrives.         *)
(***************************************************************************)
one_shot_returns(text, total) ==
    /\ pc = "one_shot"
    /\ total_tokens' = total
    /\ IF ExceedsCeiling(total)
       THEN \* line 223: raise ValueError
            /\ result' = "ContextWindowExceeded"
            /\ pc' = "done"
            /\ UNCHANGED <<histories, response, context_window, events,
                           user_prompt>>
       ELSE /\ response' = text
            \* line 57: summarize_chat_history returns, its prompt is gone
            /\ user_prompt' = <<>>
            /\ IF summarized_message_history = <<>>
               THEN \* line 75: [][-1] raises IndexError
                    /\ result' = "IndexError"
                    /\ pc' = "done"
                    /\ UNCHANGED <<histories, context_window, events>>
               ELSE /\ summarized_message_history' =
                           SummarizedHistory(summarized_message_history, text)
                    /\ context_window' = summarized_message_history'
                    /\ pc' = AfterCompression(caller)
                    /\ events' = events \o WindowEvents(caller)
                    /\ result' = WindowResult(caller)
                    /\ UNCHANGED full_message_history
    /\ UNCHANGED <<token_threshold_to_trigger_summarization, caller, prompt,
                   role>>
    /\ UNCHANGED ai_message
    /\ UNCHANGED estimator

\* A plausible slip: the active history is cut down to its last message
\* before the one-shot call, so that a failure leaves it cut.
one_shot_raises_Partial ==
    /\ pc = "one_shot"
    /\ result' = "ServiceCallError"
    /\ pc' = "done"
    /\ summarized_message_history' = << Last(summarized_message_history) >>
    /\ UNCHANGED <<full_message_history,
                   token_threshold_to_trigger_summarization,
                   caller, prompt, role, response, total_tokens,
                   context_window, events>>
    /\ UNCHANGED <<user_prompt, ai_message>>
    /\ UNCHANGED estimator

\* gpt4_one_shot, line 209: the service call raises.
one_shot_raises ==
    /\ pc = "one_shot"
    /\ result' = "ServiceCallError"
    /\ pc' = "done"
    /\ UNCHANGED <<histories, token_threshold_to_trigger_summarization,
                   caller, prompt, role, response, total_tokens,
                   context_window, events>>
    /\ UNCHANGED <<user_prompt, ai_message>>
    /\ UNCHANGED estimator

(***************************************************************************)
(* gpt4_conversation, lines 172-175, and send_message, lines 127-130: the  *)
(* multi-turn reply arrives.                                               *)
(***************************************************************************)
conversation_returns(text, total) ==
    /\ pc = "conversation"
    /\ total_tokens' = total
    /\ pc' = "done"
    /\ IF ExceedsCeiling(total)
       THEN \* line 173: raise ValueError
            /\ result' = "ContextWindowExceeded"
            /\ UNCHANGED <<histories, events, ai_message>>
       ELSE /\ ai_message' = text
            /\ add_message_to_history(ReplyMessage(ai_message'))
            /\ events' = Append(events, "reply")
            /\ result' = "returned"
    \* context_window is the very list self.summarized_message_history names
    /\ context_window' = summarized_message_history'
    /\ UNCHANGED <<token_threshold_to_trigger_summarization, caller, prompt,
                   role, response>>
    /\ UNCHANGED user_prompt
    /\ UNCHANGED estimator

\* A plausible slip: a failed multi-turn call is sent again.
conversation_raises_Retry ==
    /\ pc = "conversation"
    /\ pc' = "conversation"
    /\ Len(events) < 6
    /\ events' = Append(events, "multi")
    /\ UNCHANGED <<histories, token_threshold_to_trigger_summarization,
                   caller, prompt, role, response, total_tokens,
                   context_window, result>>
    /\ UNCHANGED <<user_prompt, ai_message>>
    /\ UNCHANGED estimator

\* gpt4_conversation, line 162: the service call raises.
conversation_raises ==
    /\ pc = "conversation"
    /\ result' = "ServiceCallError"
    /\ pc' = "done"
    /\ UNCHANGED <<histories, token_threshold_to_trigger_summarization,
                   caller, prompt, role, response, total_tokens,
                   context_window, events>>
    /\ UNCHANGED <<user_prompt, ai_message>>
    /\ UNCHANGED estimator

(***************************************************************************)
(* The call has returned or raised: its arguments and locals are gone, the *)
(* two histories and the threshold stay.                                   *)
(***************************************************************************)
call_ends ==
    /\ pc = "done"
    /\ pc' = "idle"
    /\ caller' = "none"
    /\ prompt' = <<>>
    /\ role' = "none"
    /\ response' = <<>>
    /\ total_tokens' = 0
    /\ context_window' = <<>>
    /\ events' = <<>>
    /\ result' = "none"
    /\ UNCHANGED <<histories, token_threshold_to_trigger_summarization>>
    /\ user_prompt' = <<>>
    /\ ai_message' = <<>>
    /\ UNCHANGED estimator

(***************************************************************************)
(* __init__, lines 7-14.                                                   *)
(***************************************************************************)
Init ==
    /\ full_message_history = <<>>
    /\ summarized_message_history = <<>>
    /\ token_threshold_to_trigger_summarization \in Thresholds
    /\ pc = "idle"
    /\ caller = "none"
    /\ prompt = <<>>
    /\ role = "none"
    /\ response = <<>>
    /\ total_tokens = 0
    /\ context_window = <<>>
    /\ events = <<>>
    /\ result = "none"
    /\ user_prompt = <<>>
    /\ ai_message = <<>>
    /\ estimate_messages = <<>>
    /\ estimate_tokens = 0

Next ==
    \/ \E p \in Prompts, r \in Roles : send_message(p, r)
    \/ call_manage_context_window
    \/ manage_below_threshold
    \/ manage_summarize
    \/ \E text \in Summaries, total \in UsageTotals :
           one_shot_returns(text, total)
    \/ one_shot_raises
    \/ \E text \in Replies, total \in UsageTotals :
           conversation_returns(text, total)
    \/ conversation_raises
    \/ call_ends

Spec == Init /\ [][Next]_vars

TypeOK ==
    /\ pc \in {"idle", "manage", "one_shot", "conversation", "done"}
    /\ caller \in {"none", "send_message", "host"}
    /\ Len(full_message_history) <= MaxHistory
    /\ result \in {"none", "returned", "InvalidRole", "ServiceCallError",
                   "ContextWindowExceeded", "IndexError"}


(***************************************************************************)
(* Properties.                                                             *)
(***************************************************************************)
InEvents(e) == \E i \in 1..Len(events) : events[i] = e
Estimate == calculate_total_tokens(summarized_message_history)
TurnMessage == [role |-> role, content |-> prompt]
Failures == {"ServiceCallError", "ContextWindowExceeded"}
\* The step in which manage_context_window replaces the active history.
CompressionStep ==
    /\ pc = "one_shot"
    /\ pc' \in {"conversation", "done"}
    /\ result' \notin Failures \cup {"IndexError"}

\* C1: whenever compression replaces the active history, the new active
\* history has exactly 2 elements: a system message holding the one-shot
\* reply, then the last message of the active history before the step,
\* unchanged in role and content.
C1_CompressionInvariant ==
    [][CompressionStep =>
         /\ Len(summarized_message_history') = 2
         /\ response' \in Summaries
         /\ summarized_message_history'[1] =
                [role |-> "system", content |-> response']
         /\ summarized_message_history'[2] = Last(summarized_message_history)
      ]_vars

\* A compression of at least two messages inside a turn has just happened.
C1_Witness ==
    /\ pc = "conversation"
    /\ InEvents("one_shot")
    /\ Len(full_message_history) >= 3
    /\ Len(summarized_message_history) = 2
    /\ summarized_message_history[1].role = "system"
    /\ summarized_message_history[2] = TurnMessage

\* C2: the verbatim history only grows by appending: in every step its old
\* value is a prefix of its new value (hence every earlier value is a prefix
\* of every later one), whatever the turn's outcome.
C2_VerbatimAppendOnly ==
    [][IsPrefix(full_message_history, full_message_history')]_vars

\* The verbatim history has grown to three messages or more, while the
\* active history has been compressed and a call has just failed.
C2_Witness ==
    /\ pc = "done"
    /\ result \in Failures
    /\ Len(full_message_history) >= 3
    /\ summarized_message_history[1].content \in Summaries

\* C3: send_message with a role outside {user, assistant, system} raises,
\* leaves both histories as they were, and sends no request to the service.
C3_InvalidRole ==
    [][(pc = "idle" /\ caller' = "send_message" /\ role' \notin ValidRoles) =>
         /\ result' = "InvalidRole"
         /\ pc' = "done"
         /\ events' = <<>>
         /\ UNCHANGED histories
      ]_vars

\* An invalid role has been rejected on a conversation that has messages.
C3_Witness ==
    /\ pc = "done"
    /\ result = "InvalidRole"
    /\ role = "bogus"
    /\ Len(full_message_history) >= 2

\* C4: when the multi-turn reply reports total_tokens > 4096, send_message
\* raises, both histories stay as they were, with the turn's message as their
\* last element and no reply appended; a total of exactly 4096 is no error.
C4_CeilingExceeded ==
    [][(pc = "conversation" /\ pc' = "done" /\ result' # "ServiceCallError") =>
         /\ total_tokens' > 4096 =>
              /\ result' = "ContextWindowExceeded"
              /\ UNCHANGED histories
              /\ Last(full_message_history') = TurnMessage
              /\ Last(summarized_message_history') = TurnMessage
              /\ \A i \in 1..Len(events') : events'[i] # "reply"
         /\ total_tokens' = 4096 =>
              /\ result' = "returned"
              /\ Last(full_message_history').role = "assistant"
      ]_vars

\* The multi-turn call of a turn with a compression has exceeded the ceiling.
C4_Witness ==
    /\ pc = "done"
    /\ result = "ContextWindowExceeded"
    /\ total_tokens > 4096
    /\ InEvents("multi")
    /\ InEvents("one_shot")
    /\ Last(full_message_history) = TurnMessage

\* C5: when the one-shot call fails (the service raises, or its total_tokens
\* exceeds 4096), the call ends with that error, both histories are what
\* they were before the one-shot call, and no multi-turn request is sent.
C5_SummarizationFails ==
    [][(pc = "one_shot" /\ (result' \in Failures \/ total_tokens' > 4096)) =>
         /\ result' \in Failures
         /\ pc' = "done"
         /\ UNCHANGED histories
         /\ \A i \in 1..Len(events') : events'[i] # "multi"
      ]_vars

\* The one-shot call of a turn has failed on a history of two messages or
\* more.
C5_Witness ==
    /\ pc = "done"
    /\ result \in Failures
    /\ events = <<"append", "check", "one_shot">>
    /\ Len(summarized_message_history) >= 2

\* C6: the one-shot call is never sent while the active history has fewer
\* than 2 messages.
C6_NoSummaryBelowTwoMessages ==
    pc = "one_shot" => Len(summarized_message_history) >= 2

C8_ActiveKeepsTurnMessage ==
    /\ full_message_history # <<>> => summarized_message_history # <<>>
    /\ (caller = "send_message" /\ InEvents("one_shot") /\ InEvents("multi")
        /\ ~InEvents("reply")) =>
           Last(summarized_message_history) = TurnMessage

\* A turn has compressed an active history of two messages or more.
C8_Witness ==
    /\ pc = "conversation"
    /\ InEvents("one_shot")
    /\ Len(full_message_history) >= 3
    /\ Last(summarized_message_history) = TurnMessage
    /\ role = "user"

TurnWithSummary == <<"append", "check", "one_shot", "multi", "reply">>
TurnWithoutSummary == <<"append", "check", "multi", "reply">>

C10_TurnOrder ==
    caller = "send_message" =>
      /\ \E t \in {TurnWithSummary, TurnWithoutSummary} : IsPrefix(events, t)
      /\ result = "returned" =>
           events \in {TurnWithSummary, TurnWithoutSummary}
      /\ pc = "conversation" => Last(events) = "multi"
      /\ pc = "one_shot" => Last(events) = "one_shot"

\* A turn with a summarization has returned its reply.
C10_Witness ==
    /\ pc = "done"
    /\ result = "returned"
    /\ events = TurnWithSummary

\* C11: a successful send_message appends to the verbatim history exactly
\* two messages: {role, prompt} when it starts and {assistant, reply} when the
\* multi-turn call returns, and nothing in between or afterwards; the reply
\* is then also the last element of the active history, and its text is the
\* value returned.
C11_SuccessfulTurn ==
    [][/\ (pc = "idle" /\ pc' = "manage" /\ caller' = "send_message") =>
            /\ role' \in ValidRoles
            /\ full_message_history' =
                   Append(full_message_history,
                          [role |-> role', content |-> prompt'])
       /\ (caller = "send_message" /\ pc \in {"manage", "one_shot", "done"}) =>
            full_message_history' = full_message_history
       /\ (pc = "conversation" /\ result' = "returned") =>
            /\ ai_message' \in Replies
            /\ Last(full_message_history) = TurnMessage
            /\ full_message_history' =
                   Append(full_message_history,
                          [role |-> "assistant", content |-> ai_message'])
            /\ Last(summarized_message_history') =
                   [role |-> "assistant", content |-> ai_message']
       /\ (pc = "conversation" /\ result' # "returned") =>
            full_message_history' = full_message_history
      ]_vars

\* A second turn, with a compression, has returned a reply of two words.
C11_Witness ==
    /\ pc = "done"
    /\ caller = "send_message"
    /\ result = "returned"
    /\ InEvents("one_shot")
    /\ Len(full_message_history) >= 4
    /\ ai_message = <<"r", " ", "r">>
    /\ Last(full_message_history) = [role |-> "assistant", content |-> ai_message]

\* Where the rendering of message i starts in the one-shot input: after the
\* renderings of the messages before it and one space for each.
RECURSIVE PieceOffset(_, _)
PieceOffset(history, i) ==
    IF i = 1 THEN 0
    ELSE PieceOffset(history, i - 1)
         + Len(RoleChars(history[i - 1].role)) + 2
         + Len(history[i - 1].content) + 1

\* The one-shot input holds "<role>: <content>" of message i at its place.
PieceAt(text, history, i) ==
    LET off == PieceOffset(history, i)
        name == RoleChars(history[i].role)
        body == history[i].content
    IN /\ Len(text) >= off + Len(name) + 2 + Len(body)
       /\ SubSeq(text, off + 1, off + Len(name)) = name
       /\ text[off + Len(name) + 1] = ":"
       /\ text[off + Len(name) + 2] = " "
       /\ SubSeq(text, off + Len(name) + 3, off + Len(name) + 2 + Len(body))
              = body

\* C12: while the one-shot call runs, its input is "<role>: <content>" of
\* every message of the active history but the last, in order, with one
\* space between two of them, and nothing else: n - 1 renderings for a history
\* of n messages, the last message left out.
C12_SummarizerInput ==
    pc = "one_shot" =>
      LET h == summarized_message_history
          n == Len(h)
      IN /\ Len(user_prompt) = IF n <= 1 THEN 0 ELSE PieceOffset(h, n) - 1
         /\ \A i \in 1..(n - 1) : PieceAt(user_prompt, h, i)
         /\ \A i \in 2..(n - 1) : user_prompt[PieceOffset(h, i)] = " "

\* The one-shot call runs on an active history of three messages or more.
C12_Witness ==
    /\ pc = "one_shot"
    /\ Len(summarized_message_history) >= 3
    /\ Len(user_prompt) > 0
    /\ summarized_message_history[1].role # summarized_message_history[2].role

(***************************************************************************)
(* calculate_total_tokens called on its own, on any list of messages: the  *)
(* list is drawn from the lists of one short message at most, then grown   *)
(* by a message or by text at the end of a content, and the function is    *)
(* applied again.                                                          *)
(***************************************************************************)
\* At most this many messages in the list, and characters in a content.
MaxEstimateMessages == 2
MaxContentLen == 3

Chars == {"a", " "}
Contents == UNION { [1..k -> Chars] : k \in 0..MaxContentLen }
EstimateMessages == { [role |-> "user", content |-> c] : c \in Contents }
EstimateLists ==
    UNION { [1..k -> EstimateMessages] : k \in 0..MaxEstimateMessages }

main == <<full_message_history, summarized_message_history,
          token_threshold_to_trigger_summarization, pc, caller, prompt, role,
          response, total_tokens, context_window, events, result,
          user_prompt, ai_message>>

EstimateInit ==
    /\ full_message_history = <<>>
    /\ summarized_message_history = <<>>
    /\ token_threshold_to_trigger_summarization \in Thresholds
    /\ pc = "idle"
    /\ caller = "none"
    /\ prompt = <<>>
    /\ role = "none"
    /\ response = <<>>
    /\ total_tokens = 0
    /\ context_window = <<>>
    /\ events = <<>>
    /\ result = "none"
    /\ user_prompt = <<>>
    /\ ai_message = <<>>
    /\ estimate_messages \in
           { list \in EstimateLists :
               Len(list) <= 1
               /\ \A i \in 1..Len(list) : Len(list[i].content) <= 1 }
    /\ estimate_tokens = calculate_total_tokens(estimate_messages)

\* A message is appended to the list, and the list is estimated again.
estimate_after_append(message) ==
    /\ Len(estimate_messages) < MaxEstimateMessages
    /\ estimate_messages' = Append(estimate_messages, message)
    /\ estimate_tokens' = calculate_total_tokens(estimate_messages')
    /\ UNCHANGED main

\* Text is appended to the content of message i, and the list is estimated
\* again.
estimate_after_concatenation(i, text) ==
    /\ i \in 1..Len(estimate_messages)
    /\ text # <<>>
    /\ Len(estimate_messages[i].content) + Len(text) <= MaxContentLen
    /\ estimate_messages' =
           [estimate_messages EXCEPT ![i].content = @ \o text]
    /\ estimate_tokens' = calculate_total_tokens(estimate_messages')
    /\ UNCHANGED main

EstimateNext ==
    \/ \E message \in EstimateMessages : estimate_after_append(message)
    \/ \E i \in 1..MaxEstimateMessages, text \in Contents :
           estimate_after_concatenation(i, text)

EstimateSpec == EstimateInit /\ [][EstimateNext]_vars

\* The words of all contents, counted by where they end: message i has a
\* word ending at j when character j is no white space and is the last
\* character or has white space after it.
WordEnds(list) ==
    { <<i, j>> \in (1..Len(list)) \X (1..MaxContentLen + 1) :
        /\ j <= Len(list[i].content)
        /\ ~IsSpace(list[i].content[j])
        /\ (j = Len(list[i].content) \/ IsSpace(list[i].content[j + 1])) }

\* C13: calculate_total_tokens returns the number of whitespace-delimited
\* words of all contents together, which is 0 for the empty list and never
\* negative, and the value does not decrease when a message is appended to
\* the list or text is appended to a content.
C13_Estimate ==
    /\ [](/\ estimate_tokens = Cardinality(WordEnds(estimate_messages))
          /\ estimate_tokens >= 0
          /\ estimate_messages = <<>> => estimate_tokens = 0)
    /\ [][estimate_tokens' >= estimate_tokens]_vars

\* A list of two messages, one of two words between irregular white space,
\* one without a word, estimated at two.
C13_Witness ==
    /\ Len(estimate_messages) = 2
    /\ estimate_messages[1].content = <<"a", " ", "a">>
    /\ estimate_messages[2].content = <<" ", " ">>
    /\ estimate_tokens = 2

\* C14 as stated: every window submitted to the multi-turn call has an
\* estimate strictly below the threshold.
C14_WindowBelowThreshold ==
    pc = "conversation" =>
      calculate_total_tokens(context_window)
          < token_threshold_to_trigger_summarization

\* C14 as amended: a window submitted without a compression in this turn has
\* an estimate strictly below the threshold; a window submitted after this
\* turn's compression is exactly the summary followed by the turn's message,
\* and its estimate, the words of the two together, is not tested again.
C14_WindowBelowThresholdOrCompressed ==
    pc = "conversation" =>
      IF InEvents("one_shot")
      THEN /\ Len(context_window) = 2
           /\ context_window[1] = [role |-> "system", content |-> response]
           /\ context_window[2] = TurnMessage
           /\ calculate_total_tokens(context_window)
                  = WordCount(response) + WordCount(prompt)
      ELSE /\ context_window = summarized_message_history
           /\ calculate_total_tokens(context_window)
                  < token_threshold_to_trigger_summarization

\* A compressed window is submitted with an estimate above the threshold.
C14_Witness ==
    /\ pc = "conversation"
    /\ InEvents("one_shot")
    /\ Len(full_message_history) >= 3
    /\ calculate_total_tokens(context_window)
           > token_threshold_to_trigger_summarization

\* The message is a summary that a compression produced.
IsSummary(message) ==
    message.role = "system" /\ message.content \in Summaries

\* C15: once the verbatim history is non-empty, the active history is the
\* verbatim history itself, or one summary followed by a non-empty run of
\* the last messages of the verbatim history; in both cases the two
\* histories end with the same message.
C15_ActiveShape ==
    full_message_history # <<>> =>
      LET full == full_message_history
          active == summarized_message_history
          kept == Len(active) - 1
      IN /\ active # <<>>
         /\ Last(active) = Last(full)
         /\ \/ active = full
            \/ /\ IsSummary(active[1])
               /\ kept >= 1
               /\ kept <= Len(full)
               /\ Tail(active) = SubSeq(full, Len(full) - kept + 1, Len(full))

\* After a compression and a reply the active history is a summary and the
\* last two of four verbatim messages.
C15_Witness ==
    /\ pc = "idle"
    /\ Len(full_message_history) = 4
    /\ Len(summarized_message_history) = 3
    /\ IsSummary(summarized_message_history[1])
    /\ Tail(summarized_message_history) = SubSeq(full_message_history, 3, 4)

\* C16: no message leaves the active history unnoticed. The step that
\* replaces the active history follows a one-shot call that returned and whose
\* input held every message of the active history but the last, an earlier
\* summary included, and it keeps that last message; every other step, a
\* failed one-shot or multi-turn call among them, keeps all messages of the
\* active history in place; and a message appended to the verbatim history
\* is appended to the active history in the same step.
C16_NothingDroppedSilently ==
    [][/\ IF CompressionStep
          THEN /\ \A i \in 1..(Len(summarized_message_history) - 1) :
                     PieceAt(user_prompt, summarized_message_history, i)
               /\ Last(summarized_message_history') =
                      Last(summarized_message_history)
               /\ summarized_message_history'[1] =
                      [role |-> "system", content |-> response']
          ELSE IsPrefix(summarized_message_history,
                        summarized_message_history')
       /\ full_message_history' # full_message_history =>
            /\ Len(summarized_message_history') =
                   Len(summarized_message_history) + 1
            /\ Last(summarized_message_history') = Last(full_message_history')
      ]_vars

\* With a threshold of one word every turn compresses: the second turn has
\* summarized the first turn's summary, message and reply.
C16_Witness ==
    /\ token_threshold_to_trigger_summarization = 1
    /\ pc = "conversation"
    /\ InEvents("one_shot")
    /\ Len(full_message_history) = 3
    /\ full_message_history[2].role = "assistant"
    /\ full_message_history[2].content \in Replies
    /\ Len(summarized_message_history) = 2

\* The steps of a running call: the budget test, and the return or the
\* failure of a request sent to the service.
call_steps ==
    \/ manage_below_threshold
    \/ manage_summarize
    \/ \E text \in Summaries, total \in UsageTotals :
           one_shot_returns(text, total)
    \/ one_shot_raises
    \/ \E text \in Replies, total \in UsageTotals :
           conversation_returns(text, total)
    \/ conversation_raises

\* How often the running call has done e.
CountOf(e) == Cardinality({ i \in 1..Len(events) : events[i] = e })
\* How many steps the running call can still take at most.
StepsLeft(at) ==
    CASE at = "manage" -> 3
      [] at = "one_shot" -> 2
      [] at = "conversation" -> 1
      [] OTHER -> 0

\* C17: a call sends at most one one-shot request and at most one
\* multi-turn request; after a compression manage_context_window returns
\* without testing the compressed history again, also when its estimate is
\* still at or above the threshold; a running call can always take a step
\* once the service answers, and every step leaves it fewer steps to take,
\* so that it ends, with a reply or an error, after three steps at most.
C17_OneCompressionPerCall ==
    /\ [](/\ CountOf("one_shot") <= 1
          /\ CountOf("multi") <= 1
          /\ pc \in {"manage", "one_shot", "conversation"} =>
               ENABLED call_steps)
    /\ [][/\ CompressionStep => pc' = AfterWindow(caller)
          /\ pc \in {"manage", "one_shot", "conversation"} =>
               StepsLeft(pc') < StepsLeft(pc)
         ]_vars

\* A turn has ended with a reply although the history it compressed was
\* still at or above the threshold when it was submitted.
C17_Witness ==
    /\ pc = "done"
    /\ result = "returned"
    /\ events = TurnWithSummary
    /\ calculate_total_tokens(SubSeq(summarized_message_history, 1, 2))
           >= token_threshold_to_trigger_summarization
    /\ Len(summarized_message_history) = 3

====
